---- MODULE Spec2Model ----
(***************************************************************************)
(* The command-and-status engine of the Chamois MMU plugin (chamois.py):   *)
(* one worker thread that takes jobs from a FIFO queue, runs one device    *)
(* transaction per job over a fresh TCP connection (with retries), runs a  *)
(* GET_STATUS refresh, and resolves the job's future; caller threads that  *)
(* enqueue jobs, wait for futures, read the cached status and shut the     *)
(* engine down.                                                            *)
(***************************************************************************)
EXTENDS Integers, Sequences, FiniteSets, TLC

(***************************************************************************)
(* Bounds of the model.                                                    *)
(***************************************************************************)
\* jobs created in one behaviour
MaxJobs == 2
\* largest configured max_retries explored (the configuration ranges over 0..MaxRetries)
MaxRetries == 3
\* clock ticks after the engine starts
MaxTicks == 1
\* longest byte stream without structure that the peer sends
MaxStream == 5
\* longest garbage before a frame
MaxGarbage == 2
\* longest payload of a frame built by _submit_command's framing
MaxPayload == 2
\* jobs created in one behaviour by a tool change (it creates six at most)
MaxToolJobs == 6

(***************************************************************************)
(* Program constants.                                                      *)
(***************************************************************************)
CMD_PING == 1
CMD_GET_STATUS == 160
CMD_HOME == 166
CMD_LOAD == 169
CMD_UNLOAD == 170
CMD_SELECT_TOOL == 171
CMD_RELEASE == 174
RESPONSE_CODE_OK == 0
\* the configured keepalive interval (self.mmu_keepalive), in ticks of the clock
\* now: one tick is one keepalive interval
mmu_keepalive == 1
\* the configured number of tools (self.number_of_toolhead)
number_of_toolhead == 4

VARIABLES
    \* ---- engine state (Chamois.__init__) ----
    running,                    \* self._running
    job_queue,                  \* self._job_queue: sequence of Job records
    max_retries,                \* self.max_retries (configuration)
    initialized,                \* self._initialized
    loaded,                     \* self._loaded
    selected_index,             \* self._selected_index
    total_extruded_distance,    \* self._total_extruded_distance
    number_of_tool_change,      \* self._number_of_tool_change
    last_status_update,         \* self._last_status_update
    \* ---- futures and the callers blocked on them ----
    future,                     \* future[j]: the result slot of job j
    waiter,                     \* waiter[j]: "none" | "waiting" | "returned" | "raised"
    \* ---- the worker thread ----
    wpc,                        \* position of the worker thread
    job,                        \* the job taken from the queue (NoJob if none)
    purpose,                    \* who called _send_and_receive: "job" | "forced" | "keepalive"
    retry_count,                \* local of _send_and_receive
    outcome,                    \* what the current _send_and_receive call ended with
    response,                   \* what the job's own _send_and_receive call ended with
    payload,                    \* local of _update_status: the GET_STATUS payload
    current_time,               \* local of _update_status
    \* ---- environment ----
    conns,                      \* TCP connections to the device that are open
    now,                        \* time.time()
    joiner,                     \* the thread that called shutdown(): "none" | "joining" | "joined"
    \* ---- get_status() in a caller thread ----
    rpc,                        \* "idle" | "reading" | "returned"
    snapshot,                   \* the values of the dict under construction, in order
    \* ---- _wait_for_response, seen on its own ----
    cpc,                        \* "idle" | "recv" | "returned" | "timeout"
    received_bytes,             \* local of _wait_for_response
    frame,                      \* what _wait_for_response returned (NoFrame if nothing)
    stream,                     \* the bytes of the peer that have not arrived yet
    peer,                       \* what the peer sends in all (history)
    split,                      \* the bytes so far arrived in more than one recv (history)
    \* ---- cmd_CHAMOIS_TOOL_CHANGE in a caller thread ----
    tpc,                        \* position of the thread in the handler
    index,                      \* the requested tool
    gcode_handlers,             \* the hooks registered with gcode (configuration)
    tfut,                       \* the future the handler waits on (0 if none)
    seen,                       \* the status fields as read at lines 288, 290, 295 (history)
    issued,                     \* the (cmd, payload) the handler has enqueued, in order (history)
    hooks_run,                  \* the hooks the handler has run (history)
    wire,                       \* the requests of jobs sent to the device since the
                                \* handler was called, in order (history)
    polled,                     \* a GET_STATUS request has been sent to the device
                                \* since the handler was called (history)
    late,                       \* the current call of _send_and_receive began with the
                                \* running flag cleared (history)
    fresh,                      \* the jobs whose forced refresh updated the cache and
                                \* whose caller is still inside send_cmd (history)
    \* ---- history (not program state) ----
    attempts,                   \* connection attempts of the current _send_and_receive call
    attempt_error,              \* the error of the latest failed attempt of the call
    refresh,                    \* how the latest _update_status call ended
    started,                    \* ids of the jobs whose transaction has started, in order
    before,                     \* the cached status when the current refresh began
    stable                      \* cached statuses between refreshes seen by the current get_status

vars == << running, job_queue, max_retries, initialized, loaded, selected_index,
           total_extruded_distance, number_of_tool_change, last_status_update,
           future, waiter, wpc, job, purpose, retry_count, outcome, response,
           payload, current_time, conns, now, joiner, rpc, snapshot, attempts,
           attempt_error, refresh, started, before, stable,
           cpc, received_bytes, frame, stream, peer, split,
           tpc, index, gcode_handlers, tfut, seen, issued, hooks_run, wire,
           polled, fresh, late >>

wire_vars == << wire, polled >>
tool_vars == << tpc, index, gcode_handlers, tfut, seen, issued, hooks_run >>
worker_vars == << wpc, job, purpose, retry_count, outcome, response, payload,
                  current_time, conns, attempts, attempt_error, refresh, started,
                  before, wire_vars, fresh, late >>
codec_vars == << cpc, received_bytes, frame, stream, peer, split >>
engine_vars == << running, job_queue, max_retries >>
status_vars == << initialized, loaded, selected_index, total_extruded_distance,
                  number_of_tool_change, last_status_update >>
reader_vars == << rpc, snapshot, stable >>

(***************************************************************************)
(* Bytes and integers.                                                     *)
(***************************************************************************)
Min(a, b) == IF a < b THEN a ELSE b

\* bytes[a:b] of Python: the slice is clamped to the sequence
Slice(s, a, b) == SubSeq(s, Min(a, Len(s)) + 1, Min(b, Len(s)))

\* int.from_bytes(b, 'little')
RECURSIVE FromBytesLE(_)
FromBytesLE(b) == IF b = << >> THEN 0 ELSE b[1] + 256 * FromBytesLE(Tail(b))

\* n.to_bytes(k, 'little'), struct.pack('<H', n) for k = 2
RECURSIVE ToBytesLE(_, _)
ToBytesLE(n, k) == IF k = 0 THEN << >> ELSE << n % 256 >> \o ToBytesLE(n \div 256, k - 1)

HexDigit(d) == << "0", "1", "2", "3", "4", "5", "6", "7",
                  "8", "9", "a", "b", "c", "d", "e", "f" >>[d + 1]

RECURSIVE HexDigits(_)
HexDigits(n) == IF n < 16 THEN << HexDigit(n) >>
                ELSE HexDigits(n \div 16) \o << HexDigit(n % 16) >>

\* hex(n) of Python, as a sequence of characters: hex(1) = "0x1"
Hex(n) == << "0", "x" >> \o HexDigits(n)

IsCont(b) == b \in 128..191

\* the number of bytes of the UTF-8 sequence that starts b, 0 if b starts none
Utf8Len(b) ==
    IF b = << >> THEN 0
    ELSE LET b1 == b[1]
             n  == Len(b)
         IN  IF b1 < 128 THEN 1
             ELSE IF b1 \in 194..223
                  THEN IF n >= 2 /\ IsCont(b[2]) THEN 2 ELSE 0
             ELSE IF b1 \in 224..239
                  THEN IF /\ n >= 3
                          /\ IsCont(b[2]) /\ IsCont(b[3])
                          /\ (b1 = 224 => b[2] >= 160)
                          /\ (b1 = 237 => b[2] <= 159)
                       THEN 3 ELSE 0
             ELSE IF b1 \in 240..244
                  THEN IF /\ n >= 4
                          /\ IsCont(b[2]) /\ IsCont(b[3]) /\ IsCont(b[4])
                          /\ (b1 = 240 => b[2] >= 144)
                          /\ (b1 = 244 => b[2] <= 143)
                       THEN 4 ELSE 0
             ELSE 0

\* the code point of a valid UTF-8 sequence of k bytes
CodePoint(b, k) ==
    CASE k = 1 -> b[1]
      [] k = 2 -> (b[1] - 192) * 64 + (b[2] - 128)
      [] k = 3 -> (b[1] - 224) * 4096 + (b[2] - 128) * 64 + (b[3] - 128)
      [] k = 4 -> (b[1] - 240) * 262144 + (b[2] - 128) * 4096
                    + (b[3] - 128) * 64 + (b[4] - 128)

\* bytes.decode('utf-8', 'ignore'): the code points of the valid sequences;
\* a byte that starts no valid sequence is dropped
RECURSIVE Utf8Ignore(_)
Utf8Ignore(b) ==
    IF b = << >> THEN << >>
    ELSE LET k == Utf8Len(b)
         IN  IF k = 0 THEN Utf8Ignore(Tail(b))
             ELSE << CodePoint(b, k) >> \o Utf8Ignore(SubSeq(b, k + 1, Len(b)))

(***************************************************************************)
(* The wire format: the framing of _submit_command (lines 126-128) and the *)
(* decoding of _wait_for_response (lines 146-159).                         *)
(***************************************************************************)
\* the marker byte 0xAA
Marker == 170

\* the length field counts the payload only
LengthNoCode(p) == Len(p)

\* line 126: length = 1 + len(payload)
Length(p) == 1 + Len(p)

\* lines 127-128: request = bytes([0xAA]) + struct.pack('<H', length)
\*                          + bytes([command_code]) + payload
Request(command_code, p) ==
    << Marker >> \o ToBytesLE(Length(p), 2) \o << command_code >> \o p

\* nothing is popped
PopNothing(b) == b

\* lines 146-147: while len(received_bytes) > 0 and received_bytes[0] != 0xAA:
\*                    received_bytes.pop(0)
RECURSIVE PopToMarker(_)
PopToMarker(b) ==
    IF Len(b) > 0 /\ b[1] # Marker THEN PopToMarker(Tail(b)) ELSE b

\* the frame is taken as soon as its header is there
FrameCompleteEarly(b, length) == TRUE

\* line 154, negated: the buffer holds the whole frame
FrameComplete(b, length) == ~ (Len(b) < length + 3)

NoFrame == [returned |-> FALSE, result_code |-> 0, payload |-> << >>]

\* the (result_code, payload) that _wait_for_response returns
Frame(c, p) == [returned |-> TRUE, result_code |-> c, payload |-> p]

\* lines 149-159 on a buffer whose leading bytes have been popped: NoFrame
\* where the code continues with the next recv
Decode(b) ==
    IF Len(b) < 4 THEN NoFrame
    ELSE LET length == FromBytesLE(Slice(b, 1, 3))
         IN  IF ~ FrameComplete(b, length) THEN NoFrame
             ELSE Frame(b[4], IF length > 1 THEN Slice(b, 4, 4 + length - 1) ELSE << >>)

(***************************************************************************)
(* Jobs, exceptions and futures.                                           *)
(***************************************************************************)
NoJob == [cmd |-> 0, payload |-> << >>, future |-> 0]

\* an exception: its Python type and, for the RuntimeError of the worker, the
\* parts of its message: hex(response_code) and the text after " error: "
Exc(type) == [type |-> type, code |-> << >>, detail |-> << >>, has_detail |-> FALSE]

ConnectError == Exc("ConnectionError")
Timeout      == Exc("TimeoutError")
IoError      == Exc("OSError")
Cancelled    == Exc("InterruptedError")
TypeError    == Exc("TypeError")
IndexError   == Exc("IndexError")

\* RuntimeError(f"Command failed with response code: {hex(code)}")
CommandFailed(code) ==
    [type |-> "RuntimeError", code |-> Hex(code), detail |-> << >>, has_detail |-> FALSE]

\* RuntimeError(f"Command failed with response code: {hex(code)} error: {text}")
CommandFailedWith(code, text) ==
    [type |-> "RuntimeError", code |-> Hex(code), detail |-> text, has_detail |-> TRUE]

Pending == [state |-> "pending", value |-> << >>, exc |-> Exc("")]
Result(v) == [state |-> "done", value |-> v, exc |-> Exc("")]
Raised(e) == [state |-> "done", value |-> << >>, exc |-> e]

\* a future counts as done before it is resolved
DoneAlways(f) == TRUE

\* Future.done()
Done(f) == f.state = "done"

\* the exception of a future is overlooked
NeverException(f) == FALSE

\* Future.exception() is not None
HasException(f) == f.state = "done" /\ f.exc.type # ""

\* what a call of _send_and_receive ended with
NoOutcome   == [kind |-> "running", code |-> 0, payload |-> << >>, exc |-> Exc("")]
Returned(c, p) == [kind |-> "response", code |-> c, payload |-> p, exc |-> Exc("")]
ReturnedNone == [kind |-> "none", code |-> 0, payload |-> << >>, exc |-> Exc("")]
Threw(e)    == [kind |-> "raised", code |-> 0, payload |-> << >>, exc |-> e]

(***************************************************************************)
(* The device and the callers' inputs.                                     *)
(***************************************************************************)
\* the GET_STATUS payload layout: 3 bytes, then two u64-LE
StatusPayload(i, l, s, d, n) == << i, l, s >> \o ToBytesLE(d, 8) \o ToBytesLE(n, 8)

StatusA == StatusPayload(1, 1, 3, 1000, 7)
StatusB == StatusPayload(1, 0, 2, 1000, 8)

\* what the device may answer to GET_STATUS: a full payload, a truncated one, a refusal
StatusResponses ==
    { Returned(RESPONSE_CODE_OK, StatusA), Returned(RESPONSE_CODE_OK, StatusB),
      Returned(RESPONSE_CODE_OK, << >>), Returned(RESPONSE_CODE_OK, Slice(StatusA, 0, 2)),
      Returned(RESPONSE_CODE_OK, Slice(StatusA, 0, 3)), Returned(1, << >>) }

\* b"jam"
Jam == << 106, 97, 109 >>

\* what the device may answer to a command
CommandResponses ==
    { Returned(RESPONSE_CODE_OK, << >>), Returned(RESPONSE_CODE_OK, << 7 >>),
      Returned(1, << >>), Returned(1, Jam) }

\* the (cmd, payload) pairs the callers send
JobInputs == { << CMD_PING, << >> >>, << CMD_UNLOAD, << >> >>,
               << CMD_SELECT_TOOL, ToBytesLE(2, 2) >> }

\* the byte values the peer sends
Alphabet == { 0, 1, 2, Marker }

\* the byte sequences over Alphabet of length n at most
BytesUpTo(n) == UNION { [1..k -> Alphabet] : k \in 0..n }

\* what the peer sends: bytes in all, and, when they are garbage followed by the
\* frame of (code, payload) built as _submit_command builds a request, those parts
Peer(bytes, framed, garbage, code, p) ==
    [bytes |-> bytes, framed |-> framed, garbage |-> garbage, code |-> code,
     payload |-> p]

NoPeer == Peer(<< >>, FALSE, << >>, 0, << >>)

\* codes 0x00, 0x01, 0xAA and 0xFF
Codes == { 0, 1, Marker, 255 }

\* a payload of 255 bytes: the length, 256, needs the second byte of the length field
LongPayload == [i \in 1..255 |-> 0]

\* any bytes, with no structure
RawPeers == { Peer(b, FALSE, << >>, 0, << >>) : b \in BytesUpTo(MaxStream) }

\* garbage, then one frame
FramedPeers ==
    { Peer(g \o Request(c, p), TRUE, g, c, p) :
        g \in BytesUpTo(MaxGarbage), c \in Codes, p \in BytesUpTo(MaxPayload) }

Peers == RawPeers \cup FramedPeers
            \cup { Peer(Request(1, LongPayload), TRUE, << >>, 1, LongPayload) }

\* An environment of the engine: what the callers send (inputs, at most jobs of
\* them) and what the device answers (answers to a command, statuses to GET_STATUS).
Env(inputs, jobs, answers, statuses) ==
    [inputs |-> inputs, jobs |-> jobs, answers |-> answers, statuses |-> statuses]

(***************************************************************************)
(* Init: the engine after Chamois.__init__.                                *)
(***************************************************************************)
\* the five fields get_status returns
Fields == << initialized, loaded, selected_index, total_extruded_distance,
            number_of_tool_change >>

NoStatus == [initialized |-> FALSE, loaded |-> FALSE, selected_index |-> 0,
             total_extruded_distance |-> 0, number_of_tool_change |-> 0,
             last_status_update |-> -1]

\* the cached DeviceStatus and its timestamp
Status == [initialized |-> initialized, loaded |-> loaded,
           selected_index |-> selected_index,
           total_extruded_distance |-> total_extruded_distance,
           number_of_tool_change |-> number_of_tool_change,
           last_status_update |-> last_status_update]

\* the hooks of lines 32-36
CHAMOIS_ON_LOAD == "CHAMOIS_ON_LOAD"
CHAMOIS_AFTER_LOAD == "CHAMOIS_AFTER_LOAD"
CHAMOIS_ON_UNLOAD == "CHAMOIS_ON_UNLOAD"
CHAMOIS_PARK == "CHAMOIS_PARK"
CHAMOIS_BEFORE_UNLOAD == "CHAMOIS_BEFORE_UNLOAD"

Hooks == { CHAMOIS_ON_LOAD, CHAMOIS_AFTER_LOAD, CHAMOIS_ON_UNLOAD, CHAMOIS_PARK,
           CHAMOIS_BEFORE_UNLOAD }

\* no status field read yet
NothingSeen == [initialized |-> "unread", loaded_elif |-> "unread",
                selected_index |-> "unread", loaded |-> "unread"]

\* lines 40-64, with max_retries drawn from retries and the registered hooks from
\* handlers; the worker thread, started at line 45, is at the head of its loop.
\* The clock is past the first keepalive interval (time.time() is seconds since
\* 1970 and _last_status_update starts at 0).
InitHooks(retries, handlers) ==
    /\ running = TRUE
    /\ job_queue = << >>
    /\ max_retries \in retries
    /\ initialized = FALSE
    /\ loaded = FALSE
    /\ selected_index = 0
    /\ total_extruded_distance = 0
    /\ number_of_tool_change = 0
    /\ last_status_update = 0
    /\ future = << >>
    /\ waiter = << >>
    /\ wpc = "loop"
    /\ job = NoJob
    /\ purpose = "keepalive"
    /\ retry_count = 0
    /\ outcome = NoOutcome
    /\ response = NoOutcome
    /\ payload = << >>
    /\ current_time = 0
    /\ conns = 0
    /\ now = mmu_keepalive
    /\ joiner = "none"
    /\ rpc = "idle"
    /\ snapshot = << >>
    /\ attempts = 0
    /\ attempt_error = Exc("")
    /\ refresh = "none"
    /\ started = << >>
    /\ before = NoStatus
    /\ stable = {}
    /\ cpc = "idle"
    /\ received_bytes = << >>
    /\ frame = NoFrame
    /\ stream = << >>
    /\ peer = NoPeer
    /\ split = FALSE
    /\ tpc = "idle"
    /\ index = 0
    /\ gcode_handlers \in handlers
    /\ tfut = 0
    /\ seen = NothingSeen
    /\ issued = << >>
    /\ hooks_run = {}
    /\ wire = << >>
    /\ polled = FALSE
    /\ fresh = {}
    /\ late = FALSE

\* the engine with no hook registered
InitWith(retries) == InitHooks(retries, { {} })

(***************************************************************************)
(* _send_and_receive (lines 110-123), _connect (103-108), _submit_command  *)
(* (125-129) and the read loop of _wait_for_response (131-162), as steps   *)
(* of the worker thread.                                                   *)
(***************************************************************************)
\* a call of _send_and_receive begins (lines 111-112)
BeginCall(p) ==
    /\ purpose' = p
    /\ retry_count' = 0
    /\ attempts' = 0
    /\ attempt_error' = Exc("")
    /\ outcome' = NoOutcome
    /\ late' = ~ running
    /\ wpc' = "while"

\* the socket is left open when the with block is left
CloseConnLeak(c) == c

\* leaving the with block closes the socket (line 114)
CloseConn(c) == c - 1

\* InterruptedError is retried like any other exception
RetriedAlways(e) == TRUE

\* lines 118-120: which exceptions of an attempt are handled by retrying
Retried(e) == e # Cancelled

\* the call ends: it returns or raises to its caller
EndCall(o) ==
    /\ outcome' = o
    /\ wpc' = "ret"

\* line 113: while retry_count < self.max_retries; falling out of the loop returns None
While ==
    /\ wpc = "while"
    /\ IF retry_count < max_retries
       THEN /\ wpc' = "connect"
            /\ UNCHANGED outcome
       ELSE EndCall(ReturnedNone)
    /\ UNCHANGED << codec_vars, tool_vars, wire_vars, fresh, late, engine_vars, status_vars, reader_vars, future, waiter, job, purpose,
                    retry_count, response, payload, current_time, conns, now,
                    joiner, attempts, attempt_error, refresh, started, before >>

\* line 114, _connect succeeds: a connection is open
ConnectOk ==
    /\ wpc = "connect"
    /\ conns' = conns + 1
    /\ attempts' = attempts + 1
    /\ wpc' = "submit"
    /\ UNCHANGED << codec_vars, tool_vars, wire_vars, fresh, late, engine_vars, status_vars, reader_vars, future, waiter, job, purpose,
                    retry_count, outcome, response, payload, current_time, now,
                    joiner, attempt_error, refresh, started, before >>

\* line 114, _connect raises (refused, unreachable, connect timeout): the with
\* statement is outside the try block, so the exception leaves _send_and_receive
ConnectFail ==
    /\ wpc = "connect"
    /\ attempts' = attempts + 1
    /\ attempt_error' = ConnectError
    /\ EndCall(Threw(ConnectError))
    /\ UNCHANGED << codec_vars, tool_vars, wire_vars, fresh, late, engine_vars, status_vars, reader_vars, future, waiter, job, purpose,
                    retry_count, response, payload, current_time, conns, now,
                    joiner, refresh, started, before >>

\* lines 115-123: an exception e inside the with block; the socket is closed
AttemptRaises(e) ==
    /\ conns' = CloseConn(conns)
    /\ IF Retried(e)
       THEN /\ attempt_error' = e
            /\ retry_count' = retry_count + 1
            /\ IF retry_count + 1 >= max_retries
               THEN EndCall(Threw(e))
               ELSE /\ wpc' = "while"
                    /\ UNCHANGED outcome
       ELSE /\ attempt_error' = e
            /\ EndCall(Threw(e))
            /\ UNCHANGED retry_count

\* the (command_code, payload) of the current call of _send_and_receive
Sending == IF purpose = "job" THEN << job.cmd, job.payload >>
           ELSE << CMD_GET_STATUS, << >> >>

\* the request of line 116 has gone to the device
Sent ==
    /\ wire' = IF tpc # "idle" /\ purpose = "job" THEN Append(wire, Sending) ELSE wire
    /\ polled' = (polled \/ (tpc # "idle" /\ Sending[1] = CMD_GET_STATUS))

\* line 116: sock.sendall(request)
Submit ==
    /\ wpc = "submit"
    /\ \/ /\ wpc' = "read"
          /\ Sent
          /\ UNCHANGED << conns, retry_count, outcome, attempt_error >>
       \/ /\ AttemptRaises(IoError)
          /\ UNCHANGED wire_vars
    /\ UNCHANGED << codec_vars, tool_vars, fresh, late, engine_vars, status_vars, reader_vars, future, waiter, job, purpose,
                    response, payload, current_time, now, joiner, attempts,
                    refresh, started, before >>

\* lines 134-137 and 161: the head of the read loop: the deadline, then the flag
ReadLoop ==
    /\ wpc = "read"
    /\ \/ AttemptRaises(Timeout)
       \/ /\ ~running
          /\ AttemptRaises(Cancelled)
       \/ /\ running
          /\ wpc' = "recv"
          /\ UNCHANGED << conns, retry_count, outcome, attempt_error >>
    /\ UNCHANGED << codec_vars, tool_vars, wire_vars, fresh, late, engine_vars, status_vars, reader_vars, future, waiter, job, purpose,
                    response, payload, current_time, now, joiner, attempts,
                    refresh, started, before >>

\* lines 138-159: sock.recv: no complete frame yet, a complete frame, or an I/O error
Recv(E) ==
    /\ wpc = "recv"
    /\ \/ /\ wpc' = "read"
          /\ UNCHANGED << conns, retry_count, outcome, attempt_error >>
       \/ \E r \in (IF purpose = "job" THEN E.answers ELSE E.statuses) :
             /\ conns' = CloseConn(conns)
             /\ EndCall(r)
             /\ UNCHANGED << retry_count, attempt_error >>
       \/ AttemptRaises(IoError)
    /\ UNCHANGED << codec_vars, tool_vars, wire_vars, fresh, late, engine_vars, status_vars, reader_vars, future, waiter, job, purpose,
                    response, payload, current_time, now, joiner, attempts,
                    refresh, started, before >>

(***************************************************************************)
(* _update_status (lines 164-183).                                         *)
(***************************************************************************)
\* _update_status returns (or its except clause has swallowed an exception):
\* back to line 87 after the forced refresh, to line 80 after the one in finally
EndRefresh(how) ==
    /\ refresh' = how
    /\ wpc' = IF purpose = "forced" THEN "resolve" ELSE "loop"
    /\ stable' = IF rpc = "reading" THEN stable \cup { Fields } ELSE stable
    /\ current_time' = 0

\* the locals of a finished _send_and_receive call are dead
ForgetCall ==
    /\ late' = FALSE
    /\ outcome' = NoOutcome
    /\ retry_count' = 0
    /\ attempts' = 0
    /\ attempt_error' = Exc("")

\* a forced refresh is skipped like any other
NotDueIgnoringForced(forced) == now - last_status_update < mmu_keepalive

\* line 167: is the refresh skipped
NotDue(forced) == now - last_status_update < mmu_keepalive /\ ~forced

\* lines 166-170: read the clock, return if no refresh is due, else call
\* _send_and_receive(GET_STATUS)
UpdateStatus ==
    /\ wpc = "update"
    /\ before' = Status
    /\ IF NotDue(purpose = "forced")
       THEN /\ EndRefresh("skipped")
            /\ ForgetCall
            /\ UNCHANGED purpose
       ELSE /\ BeginCall(purpose)
            /\ current_time' = now
            /\ refresh' = "none"
            /\ UNCHANGED stable
    /\ UNCHANGED << codec_vars, tool_vars, wire_vars, fresh, engine_vars, status_vars, rpc, snapshot, future, waiter, job,
                    response, payload, conns, now, joiner, started >>

\* lines 170-174: the GET_STATUS call returned or raised
StatusRet ==
    /\ wpc = "ret"
    /\ purpose # "job"
    /\ ForgetCall
    /\ IF outcome.kind = "response" /\ outcome.code = RESPONSE_CODE_OK
       THEN /\ payload' = outcome.payload
            /\ wpc' = "set_initialized"
            /\ UNCHANGED << refresh, stable, current_time >>
       ELSE /\ EndRefresh(CASE outcome.kind = "response" -> "RuntimeError"
                            [] outcome.kind = "none" -> "TypeError"
                            [] OTHER -> outcome.exc.type)
            /\ UNCHANGED payload
    /\ UNCHANGED << codec_vars, tool_vars, wire_vars, fresh, engine_vars, status_vars, rpc, snapshot, future, waiter, job, purpose,
                    response, conns, now, joiner, started, before >>

\* line 176: self._initialized = bool(payload[0])
SetInitialized ==
    /\ wpc = "set_initialized"
    /\ IF Len(payload) >= 1
       THEN /\ initialized' = (payload[1] # 0)
            /\ wpc' = "set_loaded"
            /\ UNCHANGED << refresh, stable, payload, current_time >>
       ELSE /\ EndRefresh("IndexError")
            /\ UNCHANGED << initialized, payload >>
    /\ UNCHANGED << codec_vars, tool_vars, wire_vars, fresh, late, engine_vars, loaded, selected_index, total_extruded_distance,
                    number_of_tool_change, last_status_update, rpc, snapshot,
                    future, waiter, job, purpose, retry_count, outcome, response,
                    conns, now, joiner, attempts, attempt_error, started, before >>

\* line 177: self._loaded = bool(payload[1])
SetLoaded ==
    /\ wpc = "set_loaded"
    /\ IF Len(payload) >= 2
       THEN /\ loaded' = (payload[2] # 0)
            /\ wpc' = "set_selected_index"
            /\ UNCHANGED << refresh, stable, payload, current_time >>
       ELSE /\ EndRefresh("IndexError")
            /\ UNCHANGED << loaded, payload >>
    /\ UNCHANGED << codec_vars, tool_vars, wire_vars, fresh, late, engine_vars, initialized, selected_index, total_extruded_distance,
                    number_of_tool_change, last_status_update, rpc, snapshot,
                    future, waiter, job, purpose, retry_count, outcome, response,
                    conns, now, joiner, attempts, attempt_error, started, before >>

\* line 178: self._selected_index = payload[2]
SetSelectedIndex ==
    /\ wpc = "set_selected_index"
    /\ IF Len(payload) >= 3
       THEN /\ selected_index' = payload[3]
            /\ wpc' = "set_total_extruded_distance"
            /\ UNCHANGED << refresh, stable, payload, current_time >>
       ELSE /\ EndRefresh("IndexError")
            /\ UNCHANGED << selected_index, payload >>
    /\ UNCHANGED << codec_vars, tool_vars, wire_vars, fresh, late, engine_vars, initialized, loaded, total_extruded_distance,
                    number_of_tool_change, last_status_update, rpc, snapshot,
                    future, waiter, job, purpose, retry_count, outcome, response,
                    conns, now, joiner, attempts, attempt_error, started, before >>

\* line 179: self._total_extruded_distance = int.from_bytes(payload[3:11], 'little')
SetTotalExtrudedDistance ==
    /\ wpc = "set_total_extruded_distance"
    /\ total_extruded_distance' = FromBytesLE(Slice(payload, 3, 11))
    /\ wpc' = "set_number_of_tool_change"
    /\ UNCHANGED << codec_vars, tool_vars, wire_vars, fresh, late, engine_vars, initialized, loaded, selected_index,
                    number_of_tool_change, last_status_update, reader_vars,
                    future, waiter, job, purpose, retry_count, outcome, response,
                    payload, current_time, conns, now, joiner, attempts,
                    attempt_error, refresh, started, before >>

\* line 180: self._number_of_tool_change = int.from_bytes(payload[11:19], 'little')
SetNumberOfToolChange ==
    /\ wpc = "set_number_of_tool_change"
    /\ number_of_tool_change' = FromBytesLE(Slice(payload, 11, 19))
    /\ wpc' = "set_last_status_update"
    /\ UNCHANGED << codec_vars, tool_vars, wire_vars, fresh, late, engine_vars, initialized, loaded, selected_index,
                    total_extruded_distance, last_status_update, reader_vars,
                    future, waiter, job, purpose, retry_count, outcome, response,
                    payload, current_time, conns, now, joiner, attempts,
                    attempt_error, refresh, started, before >>

\* line 181: self._last_status_update = current_time
SetLastStatusUpdate ==
    /\ wpc = "set_last_status_update"
    /\ last_status_update' = current_time
    /\ EndRefresh("updated")
    /\ UNCHANGED << codec_vars, tool_vars, wire_vars, fresh, late, engine_vars, initialized, loaded, selected_index,
                    total_extruded_distance, number_of_tool_change, rpc, snapshot, payload,
                    future, waiter, job, purpose, retry_count, outcome, response,
                    conns, now, joiner, attempts, attempt_error, started, before >>

(***************************************************************************)
(* _worker_thread (lines 79-101).                                          *)
(***************************************************************************)
\* the youngest job is taken first
QueueGetLast(q) == << q[Len(q)], SubSeq(q, 1, Len(q) - 1) >>

\* the job is read but stays in the queue
QueuePeek(q) == << Head(q), q >>

\* Queue.get: the job taken and the queue left
QueueGet(q) == << Head(q), Tail(q) >>

\* lines 87-95: the future's value for a transaction that returned a response
Resolution(response_code, response_payload, request_payload) ==
    IF response_code = RESPONSE_CODE_OK
    THEN Result(response_payload)
    ELSE IF Len(response_payload) = 0
         THEN Raised(CommandFailed(response_code))
         ELSE Raised(CommandFailedWith(response_code, Utf8Ignore(request_payload)))

\* the exception of a failed refresh reaches the worker
UncaughtAll(how) == IF how \in { "none", "skipped", "updated" } THEN Exc("") ELSE Exc(how)

\* lines 182-183: the exception _update_status lets through to its caller, given
\* how the refresh ended: none, every Exception is caught
Uncaught(how) == Exc("")

\* line 80: while self._running
Loop ==
    /\ wpc = "loop"
    /\ wpc' = IF running THEN "get" ELSE "exited"
    /\ job' = NoJob
    /\ response' = NoOutcome
    /\ before' = NoStatus
    /\ refresh' = "none"
    /\ payload' = << >>
    /\ UNCHANGED << codec_vars, tool_vars, wire_vars, fresh, late, engine_vars, status_vars, reader_vars, future, waiter, purpose,
                    retry_count, outcome, current_time, conns, now,
                    joiner, attempts, attempt_error, started >>

\* lines 82-85: a job is taken and its transaction begins
GetJob ==
    /\ wpc = "get"
    /\ job_queue # << >>
    /\ job' = QueueGet(job_queue)[1]
    /\ job_queue' = QueueGet(job_queue)[2]
    /\ started' = Append(started, job'.future)
    /\ BeginCall("job")
    /\ UNCHANGED << codec_vars, tool_vars, wire_vars, fresh, running, max_retries, status_vars, reader_vars, future, waiter,
                    response, payload, current_time, conns, now, joiner, refresh,
                    before >>

\* lines 82, 98-101: Queue.get times out (Empty): continue, through finally
GetEmpty ==
    /\ wpc = "get"
    /\ job_queue = << >>
    /\ purpose' = "keepalive"
    /\ wpc' = "update"
    /\ UNCHANGED << codec_vars, tool_vars, wire_vars, fresh, late, engine_vars, status_vars, reader_vars, future, waiter, job,
                    retry_count, outcome, response, payload, current_time, conns,
                    now, joiner, attempts, attempt_error, refresh, started, before >>

\* lines 85-86 and 96-97: the job's _send_and_receive returned a response (go on to
\* the forced refresh), returned None (the unpacking raises TypeError) or raised
\* (the future gets the exception; then finally, line 101)
JobRet ==
    /\ wpc = "ret"
    /\ purpose = "job"
    /\ response' = outcome
    /\ wpc' = "update"
    /\ CASE outcome.kind = "response" ->
              /\ purpose' = "forced"
              /\ UNCHANGED future
         [] outcome.kind = "none" ->
              /\ purpose' = "keepalive"
              /\ future' = [future EXCEPT ![job.future] = Raised(TypeError)]
         [] OTHER ->
              /\ purpose' = "keepalive"
              /\ future' = [future EXCEPT ![job.future] = Raised(outcome.exc)]
    /\ UNCHANGED << codec_vars, tool_vars, wire_vars, fresh, late, engine_vars, status_vars, reader_vars, waiter, job, retry_count,
                    outcome, payload, current_time, conns, now, joiner, attempts,
                    attempt_error, refresh, started, before >>

\* lines 87-95 (lines 96-97 if the forced refresh let an exception through), then
\* finally (line 101)
Resolve ==
    /\ wpc = "resolve"
    /\ future' = [future EXCEPT ![job.future] =
                     IF Uncaught(refresh).type # ""
                     THEN Raised(Uncaught(refresh))
                     ELSE Resolution(response.code, response.payload, job.payload)]
    /\ purpose' = "keepalive"
    /\ wpc' = "update"
    /\ before' = NoStatus
    /\ payload' = << >>
    /\ fresh' = IF refresh = "updated" /\ waiter[job.future] = "waiting"
                THEN fresh \cup { job.future } ELSE fresh
    /\ UNCHANGED << codec_vars, tool_vars, wire_vars, late, engine_vars, status_vars, reader_vars, waiter, job, retry_count,
                    outcome, response, current_time, conns, now, joiner,
                    attempts, attempt_error, refresh, started >>

(***************************************************************************)
(* The caller threads: send_cmd_async, send_cmd, get_status, shutdown.     *)
(***************************************************************************)
\* lines 185-188: a future is created and the job is put on the queue
Enqueue(E, cmd, request, w) ==
    /\ Len(future) < E.jobs
    /\ future' = Append(future, Pending)
    /\ waiter' = Append(waiter, w)
    /\ job_queue' = Append(job_queue,
                           [cmd |-> cmd, payload |-> request, future |-> Len(future) + 1])

\* send_cmd_async called on its own (as _unload and the tool change do)
SendCmdAsync(E) ==
    /\ \E in \in E.inputs : Enqueue(E, in[1], in[2], "none")
    /\ UNCHANGED << codec_vars, tool_vars, wire_vars, fresh, late, running, max_retries, status_vars, reader_vars, wpc, job, purpose,
                    retry_count, outcome, response, payload, current_time, conns,
                    now, joiner, attempts, attempt_error, refresh, started, before >>

\* line 191: send_cmd enqueues, then polls the future (lines 192-193)
SendCmd(E) ==
    /\ \E in \in E.inputs : Enqueue(E, in[1], in[2], "waiting")
    /\ UNCHANGED << codec_vars, tool_vars, wire_vars, fresh, late, running, max_retries, status_vars, reader_vars, wpc, job, purpose,
                    retry_count, outcome, response, payload, current_time, conns,
                    now, joiner, attempts, attempt_error, refresh, started, before >>

\* lines 192-197: the future is done: send_cmd returns its result or raises its exception
SendCmdReturn ==
    /\ \E j \in 1..Len(waiter) :
          /\ waiter[j] = "waiting"
          /\ Done(future[j])
          /\ waiter' = [waiter EXCEPT ![j] = IF HasException(future[j]) THEN "raised"
                                             ELSE "returned"]
          /\ fresh' = fresh \ { j }
    /\ UNCHANGED << codec_vars, tool_vars, wire_vars, late, engine_vars, status_vars, reader_vars, future, wpc, job, purpose,
                    retry_count, outcome, response, payload, current_time, conns,
                    now, joiner, attempts, attempt_error, refresh, started, before >>

\* line 238: shutdown clears the flag, then joins the worker thread
Shutdown ==
    /\ joiner = "none"
    /\ running' = FALSE
    /\ joiner' = "joining"
    /\ UNCHANGED << codec_vars, tool_vars, wire_vars, fresh, late, job_queue, max_retries, status_vars, reader_vars, future, waiter,
                    wpc, job, purpose, retry_count, outcome, response, payload,
                    current_time, conns, now, attempts, attempt_error, refresh,
                    started, before >>

\* line 239: self._thread.join() returns once the worker thread has ended
Join ==
    /\ joiner = "joining"
    /\ wpc = "exited"
    /\ joiner' = "joined"
    /\ UNCHANGED << codec_vars, tool_vars, wire_vars, fresh, late, engine_vars, status_vars, reader_vars, future, waiter, wpc, job,
                    purpose, retry_count, outcome, response, payload, current_time,
                    conns, now, attempts, attempt_error, refresh, started, before >>

\* the positions of _update_status after its first assignment to a status field
WritePcs == { "set_loaded", "set_selected_index", "set_total_extruded_distance",
              "set_number_of_tool_change", "set_last_status_update" }

FieldsOf(st) == << st.initialized, st.loaded, st.selected_index,
                  st.total_extruded_distance, st.number_of_tool_change >>

\* line 228: get_status is called
GetStatusCall ==
    /\ rpc = "idle"
    /\ rpc' = "reading"
    /\ snapshot' = << >>
    /\ stable' = { IF wpc \in WritePcs THEN FieldsOf(before) ELSE Fields }
    /\ UNCHANGED << codec_vars, tool_vars, wire_vars, fresh, late, engine_vars, status_vars, future, waiter, wpc, job, purpose,
                    retry_count, outcome, response, payload, current_time, conns,
                    now, joiner, attempts, attempt_error, refresh, started, before >>

\* lines 230-234: the next attribute is read into the dict; after the fifth the
\* dict is returned
GetStatusRead ==
    /\ rpc = "reading"
    /\ snapshot' = Append(snapshot, Fields[Len(snapshot) + 1])
    /\ rpc' = IF Len(snapshot) = 4 THEN "returned" ELSE "reading"
    /\ UNCHANGED << codec_vars, tool_vars, wire_vars, fresh, late, engine_vars, status_vars, stable, future, waiter, wpc, job, purpose,
                    retry_count, outcome, response, payload, current_time, conns,
                    now, joiner, attempts, attempt_error, refresh, started, before >>

\* line 235: the caller has the dict
GetStatusReturn ==
    /\ rpc = "returned"
    /\ rpc' = "idle"
    /\ snapshot' = << >>
    /\ stable' = {}
    /\ UNCHANGED << codec_vars, tool_vars, wire_vars, fresh, late, engine_vars, status_vars, future, waiter, wpc, job, purpose,
                    retry_count, outcome, response, payload, current_time, conns,
                    now, joiner, attempts, attempt_error, refresh, started, before >>

\* time passes; the worker reads the clock at line 166 only, so it is enough to
\* let the clock advance when the worker is about to read it
Tick ==
    /\ wpc = "update"
    /\ now < mmu_keepalive + MaxTicks
    /\ now' = now + 1
    /\ UNCHANGED << codec_vars, tool_vars, wire_vars, fresh, late, engine_vars, status_vars, reader_vars, future, waiter, wpc, job,
                    purpose, retry_count, outcome, response, payload, current_time,
                    conns, joiner, attempts, attempt_error, refresh, started, before >>

(***************************************************************************)
(* cmd_CHAMOIS_TOOL_CHANGE (lines 280-314) with _park (202-205), _unload   *)
(* (207-221) and _perform_on_load (223-226), as steps of a caller thread.  *)
(***************************************************************************)
\* a status field as the handler read it
Flag(b) == IF b THEN "true" ELSE "false"

\* the handler enqueues (cmd, request) and goes to pc: by send_cmd (w = "waiting")
\* or by send_cmd_async (w = "none")
ToolSend(E, cmd, request, w, pc) ==
    /\ Enqueue(E, cmd, request, w)
    /\ tfut' = Len(future) + 1
    /\ issued' = Append(issued, << cmd, request >>)
    /\ tpc' = pc

\* lines 313-314: an exception reaches the except clause: raise gcmd.error
ToolFail ==
    /\ tpc' = "failed"
    /\ UNCHANGED << future, waiter, job_queue, tfut, issued >>

\* the handler goes to pc without enqueuing
ToolGoto(pc) ==
    /\ tpc' = pc
    /\ UNCHANGED << future, waiter, job_queue, tfut, issued >>

\* if self._CHAMOIS_X in self.gcode.gcode_handlers: run_script_from_command and
\* _wait_moves, which return (then Cont) or raise (then Fail); else Cont
WithHook(h, Cont, Fail) ==
    \/ /\ h \notin gcode_handlers
       /\ UNCHANGED hooks_run
       /\ Cont
    \/ /\ h \in gcode_handlers
       /\ hooks_run' = hooks_run \cup { h }
       /\ \/ Cont
          \/ Fail

\* the status is taken for initialized whatever it says
NotInitializedNever(i) == FALSE

\* line 288: if not self._initialized
NotInitialized(i) == ~ i

\* the selected tool is never taken for the requested one
SameToolNever(selected, requested) == FALSE

\* line 290: self._selected_index == index
SameTool(selected, requested) == selected = requested

\* lines 280-286: the index is checked, then send_cmd(PING)
ToolChange(E, indexes) ==
    /\ tpc = "idle"
    /\ \E i \in indexes :
          /\ index' = i
          /\ IF 0 <= i /\ i < number_of_toolhead
             THEN ToolSend(E, CMD_PING, << >>, "waiting", "ping")
             ELSE ToolGoto("rejected")
    /\ UNCHANGED << codec_vars, status_vars, reader_vars, worker_vars, running,
                    max_retries, now, joiner, gcode_handlers, seen, hooks_run >>

\* lines 286, 289, 298, 307: send_cmd raised the exception of its future
ToolSendCmdRaised ==
    /\ tpc \in { "ping", "home", "select", "release" }
    /\ waiter[tfut] = "raised"
    /\ ToolFail
    /\ UNCHANGED << codec_vars, status_vars, reader_vars, worker_vars, running,
                    max_retries, now, joiner, index, gcode_handlers, seen, hooks_run >>

\* lines 288-289: PING returned; self._initialized is read; send_cmd(HOME) if unset
ToolCheckInitialized(E) ==
    /\ tpc = "ping"
    /\ waiter[tfut] = "returned"
    /\ seen' = [seen EXCEPT !.initialized = Flag(initialized)]
    /\ IF NotInitialized(initialized)
       THEN ToolSend(E, CMD_HOME, << >>, "waiting", "home")
       ELSE ToolGoto("elif_loaded")
    /\ UNCHANGED << codec_vars, status_vars, reader_vars, worker_vars, running,
                    max_retries, now, joiner, index, gcode_handlers, hooks_run >>

\* line 289: HOME returned
ToolHomed ==
    /\ tpc = "home"
    /\ waiter[tfut] = "returned"
    /\ ToolGoto("park")
    /\ UNCHANGED << codec_vars, status_vars, reader_vars, worker_vars, running,
                    max_retries, now, joiner, index, gcode_handlers, seen, hooks_run >>

\* line 290: elif self._loaded and ...: self._loaded is read
ToolElifLoaded ==
    /\ tpc = "elif_loaded"
    /\ seen' = [seen EXCEPT !.loaded_elif = Flag(loaded)]
    /\ ToolGoto(IF loaded THEN "elif_selected" ELSE "park")
    /\ UNCHANGED << codec_vars, status_vars, reader_vars, worker_vars, running,
                    max_retries, now, joiner, index, gcode_handlers, hooks_run >>

\* lines 290-292: ... and self._selected_index == index: the handler returns
ToolElifSelected ==
    /\ tpc = "elif_selected"
    /\ seen' = [seen EXCEPT !.selected_index = Flag(selected_index = index)]
    /\ ToolGoto(IF SameTool(selected_index, index) THEN "already" ELSE "park")
    /\ UNCHANGED << codec_vars, status_vars, reader_vars, worker_vars, running,
                    max_retries, now, joiner, index, gcode_handlers, hooks_run >>

\* line 294: self._park()
ToolPark ==
    /\ tpc = "park"
    /\ WithHook(CHAMOIS_PARK, ToolGoto("if_loaded"), ToolFail)
    /\ UNCHANGED << codec_vars, status_vars, reader_vars, worker_vars, running,
                    max_retries, now, joiner, index, gcode_handlers, seen >>

\* lines 295-298: if self._loaded: self._unload(); else straight to
\* send_cmd(SELECT_TOOL, struct.pack('<H', index))
ToolIfLoaded(E) ==
    /\ tpc = "if_loaded"
    /\ seen' = [seen EXCEPT !.loaded = Flag(loaded)]
    /\ IF loaded
       THEN ToolGoto("before_unload")
       ELSE ToolSend(E, CMD_SELECT_TOOL, ToBytesLE(index, 2), "waiting", "select")
    /\ UNCHANGED << codec_vars, status_vars, reader_vars, worker_vars, running,
                    max_retries, now, joiner, index, gcode_handlers, hooks_run >>

\* lines 208-212: the before-unload hook, then send_cmd_async(UNLOAD)
ToolBeforeUnload(E) ==
    /\ tpc = "before_unload"
    /\ WithHook(CHAMOIS_BEFORE_UNLOAD,
                ToolSend(E, CMD_UNLOAD, << >>, "none", "unload"), ToolFail)
    /\ UNCHANGED << codec_vars, status_vars, reader_vars, worker_vars, running,
                    max_retries, now, joiner, index, gcode_handlers, seen >>

\* lines 213-216: UNLOAD is pending and the on-unload hook is registered: it is run
ToolOnUnload ==
    /\ tpc = "unload"
    /\ ~ Done(future[tfut])
    /\ CHAMOIS_ON_UNLOAD \in gcode_handlers
    /\ hooks_run' = hooks_run \cup { CHAMOIS_ON_UNLOAD }
    /\ \/ ToolGoto("unload")
       \/ ToolFail
    /\ UNCHANGED << codec_vars, status_vars, reader_vars, worker_vars, running,
                    max_retries, now, joiner, index, gcode_handlers, seen >>

\* lines 213, 220-221 and 298: UNLOAD is done: its exception is raised, or
\* send_cmd(SELECT_TOOL, struct.pack('<H', index))
ToolUnloaded(E) ==
    /\ tpc = "unload"
    /\ Done(future[tfut])
    /\ IF HasException(future[tfut])
       THEN ToolFail
       ELSE ToolSend(E, CMD_SELECT_TOOL, ToBytesLE(index, 2), "waiting", "select")
    /\ UNCHANGED << codec_vars, status_vars, reader_vars, worker_vars, running,
                    max_retries, now, joiner, index, gcode_handlers, seen, hooks_run >>

\* lines 298-299: SELECT_TOOL returned: send_cmd_async(LOAD)
ToolSelected(E) ==
    /\ tpc = "select"
    /\ waiter[tfut] = "returned"
    /\ ToolSend(E, CMD_LOAD, << >>, "none", "load")
    /\ UNCHANGED << codec_vars, status_vars, reader_vars, worker_vars, running,
                    max_retries, now, joiner, index, gcode_handlers, seen, hooks_run >>

\* lines 300-301: LOAD is pending and the on-load hook is registered: it is run
ToolOnLoad ==
    /\ tpc = "load"
    /\ ~ Done(future[tfut])
    /\ CHAMOIS_ON_LOAD \in gcode_handlers
    /\ hooks_run' = hooks_run \cup { CHAMOIS_ON_LOAD }
    /\ \/ ToolGoto("load")
       \/ ToolFail
    /\ UNCHANGED << codec_vars, status_vars, reader_vars, worker_vars, running,
                    max_retries, now, joiner, index, gcode_handlers, seen >>

\* lines 300-307: LOAD is done: the on-load hook once more, then the exception of
\* LOAD is raised, or send_cmd(RELEASE)
ToolLoaded(E) ==
    /\ tpc = "load"
    /\ Done(future[tfut])
    /\ WithHook(CHAMOIS_ON_LOAD,
                IF HasException(future[tfut])
                THEN ToolFail
                ELSE ToolSend(E, CMD_RELEASE, << >>, "waiting", "release"),
                ToolFail)
    /\ UNCHANGED << codec_vars, status_vars, reader_vars, worker_vars, running,
                    max_retries, now, joiner, index, gcode_handlers, seen >>

\* lines 307-312: RELEASE returned: the after-load hook, then "completed successfully"
ToolReleased ==
    /\ tpc = "release"
    /\ waiter[tfut] = "returned"
    /\ WithHook(CHAMOIS_AFTER_LOAD, ToolGoto("completed"), ToolFail)
    /\ UNCHANGED << codec_vars, status_vars, reader_vars, worker_vars, running,
                    max_retries, now, joiner, index, gcode_handlers, seen >>

(***************************************************************************)
(* _wait_for_response (lines 131-162) on its own: the bytes of a peer      *)
(* arrive in chunks, one chunk per sock.recv.                              *)
(***************************************************************************)
noncodec_vars == << tool_vars, wire_vars, fresh, late, engine_vars, status_vars, reader_vars, future, waiter, wpc, job,
                    purpose, retry_count, outcome, response, payload, current_time,
                    conns, now, joiner, attempts, attempt_error, refresh, started,
                    before >>

\* the bytes of the peer that have arrived
Delivered == SubSeq(peer.bytes, 1, Len(peer.bytes) - Len(stream))

\* lines 132-133: the call begins with an empty buffer; the peer is one of P
WaitForResponse(P) ==
    /\ cpc = "idle"
    /\ \E q \in P :
          /\ peer' = q
          /\ stream' = q.bytes
    /\ received_bytes' = << >>
    /\ frame' = NoFrame
    /\ split' = FALSE
    /\ cpc' = "recv"
    /\ UNCHANGED noncodec_vars

\* lines 139-159: sock.recv returns the next n bytes; leading bytes are popped up
\* to a marker; the frame is returned if it is complete, else the loop goes on
RecvChunk ==
    /\ cpc = "recv"
    /\ \E n \in 1..Len(stream) :
          LET b == PopToMarker(received_bytes \o SubSeq(stream, 1, n))
          IN  /\ received_bytes' = b
              /\ stream' = SubSeq(stream, n + 1, Len(stream))
              /\ frame' = Decode(b)
              /\ cpc' = IF Decode(b).returned THEN "returned" ELSE "recv"
    /\ split' = (Delivered # << >>)
    /\ UNCHANGED << noncodec_vars, peer >>

\* lines 134 and 161-162: the deadline has passed: TimeoutError
ReadDeadline ==
    /\ cpc = "recv"
    /\ cpc' = "timeout"
    /\ UNCHANGED << noncodec_vars, received_bytes, frame, stream, peer, split >>

\* the call has returned or raised; its locals are gone
WaitEnd ==
    /\ cpc \in { "returned", "timeout" }
    /\ cpc' = "idle"
    /\ received_bytes' = << >>
    /\ frame' = NoFrame
    /\ stream' = << >>
    /\ peer' = NoPeer
    /\ split' = FALSE
    /\ UNCHANGED noncodec_vars

(***************************************************************************)
(* The specifications.                                                     *)
(***************************************************************************)
Transport(E) == While \/ ConnectOk \/ ConnectFail \/ Submit \/ ReadLoop \/ Recv(E)

StatusCache ==
    \/ UpdateStatus \/ StatusRet \/ SetInitialized \/ SetLoaded \/ SetSelectedIndex
    \/ SetTotalExtrudedDistance \/ SetNumberOfToolChange \/ SetLastStatusUpdate

Worker(E) == Loop \/ GetJob \/ GetEmpty \/ JobRet \/ Resolve \/ Transport(E) \/ StatusCache

Callers(E) == SendCmdAsync(E) \/ SendCmd(E) \/ SendCmdReturn \/ Shutdown \/ Join

Reader == GetStatusCall \/ GetStatusRead \/ GetStatusReturn

\* every input, every answer of the device, one job
EnvAll == Env(JobInputs, 1, CommandResponses, StatusResponses)

Next == Worker(EnvAll) \/ Callers(EnvAll) \/ Tick

Init == InitWith(0..MaxRetries)

Spec == Init /\ [][Next]_vars

\* one input and several jobs, for the claims on the queue
EnvQueue == Env({ << CMD_PING, << >> >> }, MaxJobs,
                { Returned(RESPONSE_CODE_OK, << >>) },
                { Returned(RESPONSE_CODE_OK, StatusA), Returned(1, << >>) })

NextQueue == Worker(EnvQueue) \/ Callers(EnvQueue) \/ Tick

\* max_retries = 2: every failed attempt but the last is followed by a reconnection
SpecQueue == InitWith({2}) /\ [][NextQueue]_vars

\* the read loop is left: its deadline passes or it sees the flag cleared
ReadLoopEnds == ReadLoop /\ wpc' # "recv"

\* The worker thread keeps running while it has a step to take, every read loop
\* ends (the deadline of line 134 passes at the latest), and a caller polling a
\* future that is done returns.
FairQueue ==
    /\ SpecQueue
    /\ WF_vars(Worker(EnvQueue))
    /\ SF_vars(ReadLoopEnds)
    /\ WF_vars(SendCmdReturn)

\* one job and every GET_STATUS answer, with a thread calling get_status
EnvStatus == Env({ << CMD_PING, << >> >> }, 1, { Returned(RESPONSE_CODE_OK, << >>) },
                 StatusResponses)

NextStatus == Worker(EnvStatus) \/ SendCmd(EnvStatus) \/ SendCmdReturn \/ Reader \/ Tick

SpecStatus == InitWith({1}) /\ [][NextStatus]_vars

\* a status of a device that is not initialized
StatusC == StatusPayload(0, 0, 0, 0, 0)

\* the device during a tool change: a command succeeds or is refused, the status
\* is one of three or is refused
EnvTool == Env({}, MaxToolJobs,
               { Returned(RESPONSE_CODE_OK, << >>), Returned(1, << >>) },
               { Returned(RESPONSE_CODE_OK, StatusA), Returned(RESPONSE_CODE_OK, StatusB),
                 Returned(RESPONSE_CODE_OK, StatusC), Returned(1, << >>) })

\* the tools asked for: two valid ones and one past the last tool
ToolIndexes == { 2, 3, number_of_toolhead }

\* the configurations of hooks: none, all, the hooks around the commands, the
\* hooks of the unload and load steps
HandlerSets == { {}, Hooks, { CHAMOIS_PARK, CHAMOIS_AFTER_LOAD },
                 { CHAMOIS_BEFORE_UNLOAD, CHAMOIS_ON_UNLOAD, CHAMOIS_ON_LOAD } }

ToolChanger(E) ==
    \/ ToolChange(E, ToolIndexes) \/ ToolSendCmdRaised \/ ToolCheckInitialized(E)
    \/ ToolHomed \/ ToolElifLoaded \/ ToolElifSelected \/ ToolPark
    \/ ToolIfLoaded(E) \/ ToolBeforeUnload(E) \/ ToolOnUnload \/ ToolUnloaded(E)
    \/ ToolSelected(E) \/ ToolOnLoad \/ ToolLoaded(E) \/ ToolReleased

\* one tool change, the worker, and the clock
NextTool == Worker(EnvTool) \/ ToolChanger(EnvTool) \/ SendCmdReturn \/ Tick

SpecTool == InitHooks({1}, HandlerSets) /\ [][NextTool]_vars

\* two callers of send_cmd and a device whose status tells how many commands it
\* has executed (in number_of_tool_change)
EnvFresh == Env({ << CMD_PING, << >> >> }, MaxJobs,
                { Returned(RESPONSE_CODE_OK, << >>), Returned(1, << >>) },
                { Returned(RESPONSE_CODE_OK, StatusPayload(1, 0, 0, 0, Len(started))),
                  Returned(1, << >>) })

NextFresh == Worker(EnvFresh) \/ SendCmd(EnvFresh) \/ SendCmdReturn \/ Tick

SpecFresh == InitWith({1}) /\ [][NextFresh]_vars

\* callers that enqueue and never shut the engine down; a command and a
\* GET_STATUS are answered or refused
EnvLive == Env({ << CMD_PING, << >> >> }, MaxJobs,
               { Returned(RESPONSE_CODE_OK, << >>), Returned(1, << >>) },
               { Returned(RESPONSE_CODE_OK, StatusA), Returned(1, << >>) })

NextLive == Worker(EnvLive) \/ SendCmdAsync(EnvLive) \/ Tick

SpecLive == InitWith({1, 2}) /\ [][NextLive]_vars

\* The worker thread keeps running while it has a step to take, and every read
\* loop ends: with a frame, an error, or the deadline of line 134 at the latest.
FairLive ==
    /\ SpecLive
    /\ WF_vars(Worker(EnvLive))
    /\ SF_vars(ReadLoopEnds)

\* the response decoder and every peer
NextCodec == WaitForResponse(Peers) \/ RecvChunk \/ ReadDeadline \/ WaitEnd

SpecCodec == InitWith({3}) /\ [][NextCodec]_vars

(***************************************************************************)
(* Claims.                                                                 *)
(***************************************************************************)
Range(q) == { q[i] : i \in 1..Len(q) }

\* the position of job j in started
Position(j) == CHOOSE k \in 1..Len(started) : started[k] = j

\* C1: at most one TCP connection to the device is open in every reachable state,
\* whatever the callers enqueue and including the worker's own GET_STATUS
\* transactions; a connection is opened only when none is open.
C1_AtMostOneConnection == conns <= 1

\* C1 witness: the worker's own GET_STATUS transaction holds the connection while
\* the jobs of two callers wait in the queue.
C1_Witness == conns = 1 /\ purpose # "job" /\ Len(job_queue) >= 2

\* C2: jobs are started in the order they were enqueued, and a job's transaction
\* starts only after the slot of every job enqueued before it has been resolved.
C2_Fifo ==
    \A b \in Range(started) : \A a \in 1..(b - 1) :
        /\ a \in Range(started)
        /\ Position(a) < Position(b)
        /\ Done(future[a])

\* C2 witness: the second job's transaction is in flight, after the first job's
\* transaction has started and its slot has been resolved.
C2_Witness ==
    /\ Len(started) = 2
    /\ purpose = "job"
    /\ conns = 1
    /\ job.future = 2
    /\ Done(future[1])

\* C3: every call of send_cmd eventually returns a payload or raises an error,
\* also when shutdown() is called while its job is queued or in flight, or before
\* the job is enqueued.
C3_SendCmdReturns ==
    \A j \in 1..MaxJobs :
        (j <= Len(waiter) /\ waiter[j] = "waiting")
            ~> (j <= Len(waiter) /\ waiter[j] \in { "returned", "raised" })

\* the state in which _send_and_receive has just ended
CallEnded == wpc = "ret"

\* the state in which the worker has just left its try block for a job, with the
\* job, its transaction's outcome and the outcome of the forced refresh at hand
JobSettled == wpc = "update" /\ purpose = "keepalive" /\ response.kind # "running"

\* C4: a failed attempt (other than Cancelled) does not fail the transaction while
\* attempts remain: the call raises such an error only once max_retries
\* connections have been attempted, and a call that returns a response after k - 1
\* failed attempts has opened exactly k connections.
C4_RetriedWhileAttemptsRemain ==
    CallEnded =>
        /\ (outcome.kind = "raised" /\ outcome.exc # Cancelled) => attempts >= max_retries
        /\ outcome.kind = "response" => attempts = retry_count + 1

\* C5: with max_retries = N >= 1, a call whose every attempt fails raises after
\* exactly N connection attempts, the error raised is that of the N-th attempt,
\* and the job's slot is resolved with that error.
C5_FailsAfterExactlyN ==
    /\ (CallEnded /\ outcome.kind = "raised" /\ outcome.exc # Cancelled) =>
          /\ attempts = max_retries
          /\ outcome.exc = attempt_error
    /\ (JobSettled /\ response.kind = "raised") =>
          future[job.future] = Raised(response.exc)

\* C6: once the read loop of an attempt has raised Cancelled, that call of
\* _send_and_receive makes no further attempt: it has ended raising Cancelled; and
\* when it was the job's transaction, the job's slot is resolved with Cancelled.
C6_CancelledEndsCall ==
    attempt_error = Cancelled =>
        /\ outcome = Threw(Cancelled)
        /\ CallEnded \/ JobSettled
        /\ JobSettled => future[job.future] = Raised(Cancelled)

\* C6 witness: a job's transaction was cancelled in its first attempt with retries
\* left, and the job's slot holds Cancelled.
C6_Witness ==
    /\ JobSettled
    /\ response = Threw(Cancelled)
    /\ attempts = 1
    /\ max_retries >= 2
    /\ future[job.future] = Raised(Cancelled)

\* C7: a transaction that returned a response resolves the slot with the payload
\* (code 0x00), with an error naming the code (non-OK code, empty payload), or
\* with an error naming the code and carrying the lossy UTF-8 decoding of the
\* response payload (non-OK code, non-empty payload).
C7_ErrorCarriesResponsePayload ==
    (JobSettled /\ response.kind = "response") =>
        future[job.future] =
            IF response.code = RESPONSE_CODE_OK THEN Result(response.payload)
            ELSE IF response.payload = << >> THEN Raised(CommandFailed(response.code))
            ELSE Raised(CommandFailedWith(response.code, Utf8Ignore(response.payload)))

\* C8: the slot of a job is resolved, and with a value fixed by the job's own
\* transaction, whatever the outcome of the GET_STATUS refresh that followed it:
\* the payload for code 0x00, a RuntimeError naming the code otherwise, the
\* transaction's own exception if it raised.
C8_RefreshNeverChangesResult ==
    JobSettled =>
        LET f == future[job.future] IN
        /\ Done(f)
        /\ (response.kind = "response" /\ response.code = RESPONSE_CODE_OK) =>
              f = Result(response.payload)
        /\ (response.kind = "response" /\ response.code # RESPONSE_CODE_OK) =>
              /\ f.exc.type = "RuntimeError"
              /\ f.exc.code = Hex(response.code)
              /\ f.exc.has_detail = (response.payload # << >>)
        /\ response.kind = "raised" => f = Raised(response.exc)
        /\ response.kind = "none" => f = Raised(TypeError)

\* C8 witness: the transaction returned OK with a payload, the forced refresh
\* failed on a malformed GET_STATUS payload, and the slot holds the payload.
C8_Witness ==
    /\ JobSettled
    /\ response = Returned(RESPONSE_CODE_OK, << 7 >>)
    /\ refresh = "IndexError"
    /\ future[job.future] = Result(<< 7 >>)

\* C9: the dict get_status returns holds the five fields of one cached status:
\* the one at the call, or one left by a refresh that ended during the call;
\* never fields of two of them.
C9_NoTornRead == rpc = "returned" => snapshot \in stable

\* the state in which a call of _update_status that began a refresh has just ended
RefreshEnded ==
    /\ wpc \in { "resolve", "loop" }
    /\ before # NoStatus
    /\ refresh # "skipped"

\* the cached status a complete 19-byte GET_STATUS payload p gives at time t
Parsed(p, t) ==
    [initialized |-> p[1] # 0, loaded |-> p[2] # 0, selected_index |-> p[3],
     total_extruded_distance |-> FromBytesLE(SubSeq(p, 4, 11)),
     number_of_tool_change |-> FromBytesLE(SubSeq(p, 12, 19)),
     last_status_update |-> t]

\* C10: a refresh changes the cached status only if its GET_STATUS transaction
\* returned OK with the 19-byte payload, and then it sets every field and
\* last_update; every other refresh leaves all of them as they were.
C10_RefreshAllOrNothing ==
    RefreshEnded =>
        IF refresh = "updated" /\ Len(payload) >= 19
        THEN \E t \in 0..(mmu_keepalive + MaxTicks) : Status = Parsed(payload, t)
        ELSE Status = before

\* the (result_code, payload) the peer's frame carries
PeerFrame == Frame(peer.code, peer.payload)

\* C11: for every garbage G, also with the marker byte 0xAA in it, followed by a
\* complete valid frame F, _wait_for_response discards G and returns exactly F's
\* response code and payload: it returns nothing else, and it has returned once
\* the last byte of F has arrived.
C11_GarbageThenFrame ==
    peer.framed =>
        /\ cpc = "returned" => frame = PeerFrame
        /\ cpc = "recv" => stream # << >>

\* C11 as amended: the same for every garbage G that does not contain the marker
\* byte 0xAA.
C11_GarbageWithoutMarkerThenFrame ==
    (peer.framed /\ Marker \notin Range(peer.garbage)) =>
        /\ cpc = "returned" => frame = PeerFrame
        /\ cpc = "recv" => stream # << >>

\* C11 witness: two bytes of garbage were discarded and the frame behind them,
\* with a payload, was returned.
C11_Witness ==
    /\ cpc = "returned"
    /\ peer.framed
    /\ Len(peer.garbage) = 2
    /\ Marker \notin Range(peer.garbage)
    /\ Len(peer.payload) >= 1
    /\ frame = PeerFrame

\* what _wait_for_response returns when all the bytes of the peer arrive in one recv
AllAtOnce == Decode(PopToMarker(peer.bytes))

\* the bytes that have arrived, from the first marker on
FromMarker == PopToMarker(Delivered)

\* C12: whatever the byte stream and however it is split into recv chunks,
\* _wait_for_response returns what it returns when the stream arrives all at
\* once (and it returns by the end of the stream if it returns then), and it
\* returns no frame before 3 + length bytes from the marker on have arrived.
C12_ChunkingIndependent ==
    /\ cpc = "returned" =>
          /\ frame = AllAtOnce
          /\ Len(FromMarker) >= 3 + FromBytesLE(Slice(FromMarker, 1, 3))
    /\ (cpc = "recv" /\ stream = << >>) => ~ AllAtOnce.returned

\* C12 witness: a frame with a payload, behind garbage, was returned after its
\* bytes had arrived in more than one recv.
C12_Witness ==
    /\ cpc = "returned"
    /\ split
    /\ peer.garbage # << >>
    /\ Len(frame.payload) >= 1

\* C13: the bytes _submit_command builds for (c, p), received as a response,
\* are decoded to exactly (c, p), for the codes and payloads of the model (codes
\* 0x00, 0x01, 0xAA, 0xFF; payloads of 0 to MaxPayload bytes and one of 255 bytes).
C13_RoundTrip ==
    (peer.framed /\ peer.garbage = << >>) =>
        /\ cpc = "returned" => (frame.result_code = peer.code /\ frame.payload = peer.payload)
        /\ cpc = "recv" => Len(Delivered) < Len(Request(peer.code, peer.payload))

\* C13 witness: the frame of a 255-byte payload, whose length field is 0x0100,
\* came back as sent.
C13_Witness ==
    /\ cpc = "returned"
    /\ peer.garbage = << >>
    /\ peer.payload = LongPayload
    /\ frame = Frame(1, LongPayload)

\* the handler has returned or raised
ToolEnded == tpc \in { "completed", "already", "failed" }

\* the commands of a sequence of requests
Cmds(q) == { q[k][1] : k \in 1..Len(q) }

\* PING, HOME, SELECT_TOOL with u16le(index), LOAD, RELEASE
FiveCommands ==
    << << CMD_PING, << >> >>, << CMD_HOME, << >> >>,
       << CMD_SELECT_TOOL, << index % 256, index \div 256 >> >>,
       << CMD_LOAD, << >> >>, << CMD_RELEASE, << >> >> >>

\* the run of C14: no hook is registered, the handler read "not initialized" at
\* line 288 and "not loaded" at line 295, and no command resolved with an error
Scenario ==
    /\ ToolEnded
    /\ gcode_handlers = {}
    /\ seen.initialized = "false"
    /\ seen.loaded = "false"
    /\ \A k \in 1..Len(future) : future[k].exc.type = ""

C15_EarlyExit ==
    (/\ seen.initialized = "true"
     /\ seen.loaded_elif = "true"
     /\ seen.selected_index = "true") =>
        /\ tpc = "already"
        /\ issued = << << CMD_PING, << >> >> >>
        /\ wire = issued
        /\ hooks_run = {}

\* C15 witness: every hook is registered, tool 3 is asked for and is the one
\* loaded, and the handler has returned.
C15_Witness ==
    /\ tpc = "already"
    /\ gcode_handlers = Hooks
    /\ index = 3
    /\ initialized /\ loaded /\ selected_index = 3

\* where the handler waits for the command cmd
WaitingPc(cmd) ==
    CASE cmd = CMD_PING -> "ping"
      [] cmd = CMD_HOME -> "home"
      [] cmd = CMD_UNLOAD -> "unload"
      [] cmd = CMD_SELECT_TOOL -> "select"
      [] cmd = CMD_LOAD -> "load"
      [] cmd = CMD_RELEASE -> "release"

\* C16: once a command of the tool change has resolved with an error, no later
\* command is enqueued, the after-load hook is not run, and the handler does not
\* report success: it still waits on that command or has raised to its caller.
C16_FailureAborts ==
    \A k \in 1..Len(issued) :
        (future[k].state = "done" /\ future[k].exc.type # "") =>
            /\ k = Len(issued)
            /\ CHAMOIS_AFTER_LOAD \notin hooks_run
            /\ tpc \in { WaitingPc(issued[k][1]), "failed" }

\* C16 witness: UNLOAD failed, the handler has raised, nothing was enqueued after
\* UNLOAD, with the after-load hook registered.
C16_Witness ==
    /\ tpc = "failed"
    /\ issued # << >>
    /\ issued[Len(issued)][1] = CMD_UNLOAD
    /\ future[Len(issued)].exc.type = "RuntimeError"
    /\ CHAMOIS_AFTER_LOAD \in gcode_handlers

\* the commands of a tool change, in order
ToolOrder == << CMD_PING, CMD_HOME, CMD_UNLOAD, CMD_SELECT_TOOL, CMD_LOAD, CMD_RELEASE >>

Rank(cmd) == CHOOSE r \in 1..Len(ToolOrder) : ToolOrder[r] = cmd

\* C17: the commands are enqueued in the order PING, [HOME], [UNLOAD],
\* SELECT_TOOL, LOAD, RELEASE, each only after the one before it has resolved
\* without error; UNLOAD is enqueued only if, and (unless the before-unload hook
\* raised) whenever, the handler read "loaded" after the park step; SELECT_TOOL
\* after such a read only behind a successful UNLOAD; LOAD only behind SELECT_TOOL,
\* RELEASE only behind LOAD.
C17_CommandOrder ==
    /\ \A k \in 1..Len(issued) :
          /\ k = 1 => issued[k][1] = CMD_PING
          /\ k > 1 =>
                /\ Rank(issued[k - 1][1]) < Rank(issued[k][1])
                /\ future[k - 1].state = "done"
                /\ future[k - 1].exc.type = ""
                /\ issued[k][1] = CMD_HOME => issued[k - 1][1] = CMD_PING
                /\ issued[k][1] = CMD_SELECT_TOOL =>
                      (seen.loaded = "true" <=> issued[k - 1][1] = CMD_UNLOAD)
                /\ issued[k][1] = CMD_LOAD => issued[k - 1][1] = CMD_SELECT_TOOL
                /\ issued[k][1] = CMD_RELEASE => issued[k - 1][1] = CMD_LOAD
    /\ CMD_UNLOAD \in Cmds(issued) => seen.loaded = "true"
    /\ (seen.loaded = "true" /\ tpc \notin { "before_unload", "failed" }) =>
          CMD_UNLOAD \in Cmds(issued)

\* C17 witness: a tool change that needed all six commands has completed.
C17_Witness ==
    /\ tpc = "completed"
    /\ Len(issued) = 6
    /\ seen.loaded = "true"

\* The worker runs the forced refresh of a job after the job's transaction has
\* returned a response and before it resolves the job's slot.
RefreshBeforeResolve ==
    /\ purpose = "forced" => (response.kind = "response" /\ future[job.future] = Pending)
    /\ (JobSettled /\ response.kind = "response") => refresh \notin { "none", "skipped" }

\* C18: for every job whose transaction returned a response the worker runs a
\* forced GET_STATUS refresh after the transaction and before it resolves the
\* slot; hence when send_cmd returns successfully and that refresh succeeded, the
\* cached status the caller reads comes from a GET_STATUS executed after the
\* caller's command and before any later job's command (with the device of
\* SpecFresh: number_of_tool_change is the number of the caller's command).
C18_CallerSeesOwnRefresh ==
    /\ []RefreshBeforeResolve
    /\ [][\A j \in 1..Len(waiter) :
             (j \in fresh /\ waiter[j] = "waiting" /\ waiter'[j] = "returned") =>
                 number_of_tool_change = Position(j)]_vars

\* C18 as amended: the worker runs the forced refresh after the transaction and
\* before it resolves the slot; hence at the moment the slot is resolved after a
\* successful forced refresh, the cached status comes from a GET_STATUS executed
\* after that job's command and before any later job's command.
C18_RefreshThenResolve ==
    /\ RefreshBeforeResolve
    /\ (JobSettled /\ response.kind = "response" /\ refresh = "updated") =>
          /\ number_of_tool_change = Position(job.future)
          /\ Position(job.future) = Len(started)

\* C18 witness: the second job's slot has just been resolved, after a forced
\* refresh that put the status after the second command into the cache.
C18_Witness ==
    /\ JobSettled
    /\ job.future = 2
    /\ refresh = "updated"
    /\ number_of_tool_change = 2
    /\ Done(future[2])

\* C19: once the running flag is cleared the worker starts no new device
\* transaction: a call of _send_and_receive that begins with the flag cleared, for
\* a job dequeued afterwards or for a status refresh, opens no connection (and so
\* sends no request).
C19_NoTransactionAfterShutdown == [][late => conns' <= conns]_vars

\* a step leaves a resolved slot as it is, and resolves a slot only as a step of the
\* worker, for the job the worker holds
ResolvedOnceByWorker ==
    \A j \in 1..Len(future) :
        /\ future[j] # Pending => future'[j] = future[j]
        /\ (future[j] = Pending /\ future'[j] # Pending) =>
              /\ wpc \in { "ret", "resolve" }
              /\ wpc' = "update"
              /\ job.future = j

\* C20: every slot is resolved at most once and only by the worker, and, with no
\* shutdown and max_retries >= 1, under fair scheduling of the worker and with
\* every attempt ending, every enqueued job is eventually dequeued and its slot
\* eventually resolved.
C20_ResolvedExactlyOnce ==
    /\ [][ResolvedOnceByWorker]_vars
    /\ \A j \in 1..MaxJobs :
          (j <= Len(future)) ~> (j \in Range(started) /\ Done(future[j]))

\* C20 witness: with max_retries = 2, the first job's transaction timed out in
\* both attempts, and every job has been dequeued and resolved.
C20_Witness ==
    /\ max_retries = 2
    /\ Len(future) = MaxJobs
    /\ Len(started) = MaxJobs
    /\ \A j \in 1..MaxJobs : Done(future[j])
    /\ future[1] = Raised(Timeout)

====
